---- MODULE Spec2Model ----
(***************************************************************************)
(* The schedule renderers of pintowar/bellum (src/minizinc):               *)
(*   common.plot_schedule            the shared renderer                   *)
(*   visualize_schedule.main         the stdin stream renderer             *)
(*   visualize_schedule_mip.main     the MIP stdin stream renderer         *)
(*   visualize_schedule_cp.main      the CP entry point                    *)
(*                                                                         *)
(* Python values are modelled as follows.  A list is a sequence (Python    *)
(* index i is TLA+ index i + 1).  A dict is a function whose DOMAIN is the *)
(* set of its keys.  A value that may be an int or None is a record        *)
(* [t, v].  A matplotlib figure is a record holding the figsize passed to  *)
(* plt.subplots, the drawing calls made on its axes, in call order, and    *)
(* the axis settings.  The x coordinate of a text, start + dur / 2, may be *)
(* fractional and is kept doubled (x2 = 2 * start + dur).                  *)
(***************************************************************************)
EXTENDS Integers, Sequences, FiniteSets, TLC

VARIABLES
    pc,               \* "idle": nothing ran yet; "ready": a call is set up; "done"
    run,              \* the entry point that ran: "plot_schedule", "stream", "mip", "cp"
    stdin,            \* sys.stdin.read().split('----------'): the parts of the stream
    save,             \* whether --save was given
    args,             \* the arguments of a direct plot_schedule call
    fig,              \* the figure plt.subplots created, or NoFig
    figs,             \* the number of figures pyplot has created
    exc,              \* the exception that ended the run, or ""
    stdout,           \* the lines printed
    sink,             \* "none", "savefig" or "show"
    PRIORITY_COLORS,  \* the module-level table of common.py
    hist,             \* history: the first call's arguments and figure, whether a
                      \* later call had other arguments, the lists as last passed
    ncalls            \* the number of plot_schedule calls made

vars == <<pc, run, stdin, save, args, fig, figs, exc, stdout, sink,
          PRIORITY_COLORS, hist, ncalls>>

---------------------------------------------------------------------------
(* Bounds of the model. *)

MaxTasks == 2
MaxEdges == 2
MaxParts == 3
MaxCalls == 3

---------------------------------------------------------------------------
(* Python values and built-ins. *)

PyNone == [t |-> "NoneType", v |-> 0]
PyInt(n) == [t |-> "int", v |-> n]

\* f"{n}" of an int
Str(n) == ToString(n)

Min2(x, y) == IF x <= y THEN x ELSE y

\* the number of tuples zip(a, s, d) yields: that of its shortest argument
ZipLen(a, s, d) == Min2(Len(a), Min2(Len(s), Len(d)))

\* set(list)
SetOf(list) == {list[k] : k \in 1..Len(list)}

SetMin(S) == CHOOSE x \in S : \A y \in S : x <= y

\* sorted(set)
RECURSIVE Sorted(_)
Sorted(S) == IF S = {} THEN <<>> ELSE <<SetMin(S)>> \o Sorted(S \ {SetMin(S)})

\* dict.get(key, default) of a dict
DictGet(d, key, default) == IF key \in DOMAIN d THEN d[key] ELSE default

\* bool(list): an empty list is falsy
Truthy(list) == Len(list) > 0

---------------------------------------------------------------------------
(* The drawing calls. *)

NoFig == [exc |-> "", figsize |-> <<0, 0>>, canvas |-> <<>>, yticks |-> <<>>,
          yticklabels |-> <<>>, xlabel |-> "", ylabel |-> "", title |-> "",
          grid |-> FALSE, exists |-> FALSE]

\* ax.barh(emp, dur, left=start, height=0.5, align="center", color=color, ...)
Barh(emp, dur, start, color) ==
    [op |-> "barh", y |-> emp, width |-> dur, left |-> start, color |-> color,
     xy |-> <<0, 0>>, xytext |-> <<0, 0>>, s |-> ""]

\* ax.annotate("", xy=xy, xytext=xytext, arrowprops=dict(arrowstyle="->", ...)):
\* an arrow from xytext to xy
Annotate(xy, xytext) ==
    [op |-> "annotate", y |-> 0, width |-> 0, left |-> 0, color |-> "purple",
     xy |-> xy, xytext |-> xytext, s |-> ""]

\* ax.text(start + dur / 2, emp, label, ...): left holds the doubled x
Text(x2, emp, label) ==
    [op |-> "text", y |-> emp, width |-> 0, left |-> x2, color |-> "white",
     xy |-> <<0, 0>>, xytext |-> <<0, 0>>, s |-> label]

\* [f"Employee {e}" for e in employees]
EmployeeLabels(employees) ==
    [k \in 1..Len(employees) |-> "Employee " \o Str(employees[k])]

---------------------------------------------------------------------------
(* common.py *)

PriorityColorsInit == (0 :> "red") @@ (1 :> "blue") @@ (2 :> "green")

\* PRIORITY_COLORS.get(priority, "gray"): the value looked up
ColorsGet(table, priority, default) ==
    IF priority.t = "int" THEN DictGet(table, priority.v, default) ELSE default

\* PRIORITY_COLORS.get(...) removes the key instead of only reading it
TableAfterPop(table, priority) ==
    IF priority.t = "int" /\ priority.v \in DOMAIN table
    THEN [k \in DOMAIN table \ {priority.v} |-> table[k]]
    ELSE table

\* PRIORITY_COLORS.get(priority, "gray"): the table after the lookup
TableAfterGet(table, priority) == table

RECURSIVE build_task_predecessors_from(_, _, _)
build_task_predecessors_from(precedence, k, task_predecessors) ==
    IF k > Len(precedence) THEN task_predecessors
    ELSE LET pred == precedence[k][1]
             succ == precedence[k][2]
             d1 == IF succ \notin DOMAIN task_predecessors
                   THEN task_predecessors @@ (succ :> <<>>)
                   ELSE task_predecessors
             d2 == [d1 EXCEPT ![succ] = Append(@, pred)]
         IN build_task_predecessors_from(precedence, k + 1, d2)

\* task_predecessors[succ].insert(0, pred): the lists come out reversed
build_task_predecessors_prepend(precedence) ==
    build_task_predecessors_from(
        [k \in 1..Len(precedence) |-> precedence[Len(precedence) + 1 - k]], 1, <<>>)

build_task_predecessors(precedence) ==
    build_task_predecessors_from(precedence, 1, <<>>)

\* task_coords[i] = (start, dur, emp): the end of the bar is lost
TaskCoordsNoEnd(assignments, start_times, durations) ==
    [i \in 0..(ZipLen(assignments, start_times, durations) - 1) |->
        <<start_times[i + 1], durations[i + 1], assignments[i + 1]>>]

\* task_coords[i] = (start, start + dur, emp), filled for every zipped task
\* by the first loop, before the drawing loop starts
TaskCoords(assignments, start_times, durations) ==
    [i \in 0..(ZipLen(assignments, start_times, durations) - 1) |->
        <<start_times[i + 1], start_times[i + 1] + durations[i + 1],
          assignments[i + 1]>>]

\* priority = priorities[i] if i < len(priorities) else None
PriorityAt(priorities, i) ==
    IF i < Len(priorities) THEN priorities[i + 1] ELSE PyNone

\* a task past the end of priorities takes the last priority given
PlotColorClamped(table, priorities, i) ==
    LET priority == IF priorities = <<>> THEN PyNone
                    ELSE priorities[Min2(i + 1, Len(priorities))]
    IN IF priority # PyNone THEN ColorsGet(table, priority, "gray") ELSE "gray"

\* color = PRIORITY_COLORS.get(priority, "gray") if priority is not None else "gray"
PlotColor(table, priorities, i) ==
    LET priority == PriorityAt(priorities, i)
    IN IF priority # PyNone THEN ColorsGet(table, priority, "gray") ELSE "gray"

\* ",".join([f"T{p}" for p in preds]), from the k-th element on
RECURSIVE JoinT(_, _)
JoinT(preds, k) ==
    IF k >= Len(preds) THEN "T" \o Str(preds[k])
    ELSE "T" \o Str(preds[k]) \o "," \o JoinT(preds, k + 1)

\* label = f"T{i}"; if preds: label = f"{pred_str} -> {label}"
PlotLabel(i, preds) ==
    IF Truthy(preds) THEN JoinT(preds, 1) \o " -> " \o ("T" \o Str(i))
    ELSE "T" \o Str(i)

\* task_coords kept as a list: a negative p_idx counts from its end
InTaskCoordsWrap(p_idx, task_coords) ==
    \/ p_idx \in DOMAIN task_coords
    \/ p_idx + Cardinality(DOMAIN task_coords) \in DOMAIN task_coords

\* if p_idx in task_coords
InTaskCoords(p_idx, task_coords) == p_idx \in DOMAIN task_coords

\* for p_idx in preds: if p_idx in task_coords: ... ax.annotate(...)
\* st = [canvas, exc]; task_coords[p_idx] of a missing key raises KeyError
RECURSIVE PlotArrows(_, _, _, _, _, _)
PlotArrows(st, preds, k, start, emp, task_coords) ==
    IF k > Len(preds) \/ st.exc # "" THEN st
    ELSE LET p_idx == preds[k]
         IN IF InTaskCoords(p_idx, task_coords)
            THEN IF p_idx \in DOMAIN task_coords
                 THEN LET p_end == task_coords[p_idx][2]
                          p_emp == task_coords[p_idx][3]
                      IN PlotArrows(
                             [st EXCEPT !.canvas =
                                 Append(@, Annotate(<<start, emp>>, <<p_end, p_emp>>))],
                             preds, k + 1, start, emp, task_coords)
                 ELSE [st EXCEPT !.exc = "KeyError"]
            ELSE PlotArrows(st, preds, k + 1, start, emp, task_coords)

\* task_coords filled inside the drawing loop: task i sees tasks 0..i only
CoordsKnownUpTo(task_coords, i) ==
    [j \in {q \in DOMAIN task_coords : q <= i} |-> task_coords[j]]

\* the task_coords the drawing loop reads at task i: the first loop (lines
\* 72-74) has ended before the second (line 76) starts, so every task's
CoordsKnownAt(task_coords, i) == task_coords

\* the drawing loop, from task i on: bar, arrows, text
RECURSIVE PlotTasks(_, _, _, _, _, _)
PlotTasks(st, i, a, task_predecessors, task_coords, table) ==
    IF i >= ZipLen(a.assignments, a.start_times, a.durations) \/ st.exc # "" THEN st
    ELSE LET emp == a.assignments[i + 1]
             start == a.start_times[i + 1]
             dur == a.durations[i + 1]
             color == PlotColor(table, a.priorities, i)
             preds == DictGet(task_predecessors, i, <<>>)
             label == PlotLabel(i, preds)
             st1 == [st EXCEPT !.canvas = Append(@, Barh(emp, dur, start, color))]
             st2 == IF Truthy(preds)
                    THEN PlotArrows(st1, preds, 1, start, emp,
                                    CoordsKnownAt(task_coords, i))
                    ELSE st1
             st3 == IF st2.exc = ""
                    THEN [st2 EXCEPT !.canvas =
                             Append(@, Text(2 * start + dur, emp, label))]
                    ELSE st2
         IN PlotTasks(st3, i + 1, a, task_predecessors, task_coords, table)

\* the figure plot_schedule leaves in pyplot; it is returned when exc = ""
plot_schedule(a, table) ==
    LET employees == Sorted(SetOf(a.assignments))
        task_predecessors == build_task_predecessors(a.precedence)
        task_coords == TaskCoords(a.assignments, a.start_times, a.durations)
        st == PlotTasks([canvas |-> <<>>, exc |-> ""], 0, a,
                        task_predecessors, task_coords, table)
    IN IF st.exc # ""
       THEN [NoFig EXCEPT !.exc = st.exc, !.figsize = <<14, 7>>,
                          !.canvas = st.canvas, !.exists = TRUE]
       ELSE [exc |-> "", figsize |-> <<14, 7>>, canvas |-> st.canvas,
             yticks |-> employees, yticklabels |-> EmployeeLabels(employees),
             xlabel |-> "Time", ylabel |-> "Employees",
             title |-> a.title_prefix \o " Visualization (Makespan: "
                       \o Str(a.max_time) \o ", Priority Cost: "
                       \o Str(a.priority_cost) \o ")",
             grid |-> TRUE, exists |-> TRUE]

\* the module-level table after the drawing loop has looked up every
\* zipped task's priority that is not None
RECURSIVE TableAfterTasks(_, _, _)
TableAfterTasks(table, a, i) ==
    IF i >= ZipLen(a.assignments, a.start_times, a.durations) THEN table
    ELSE LET priority == PriorityAt(a.priorities, i)
         IN TableAfterTasks(
                IF priority # PyNone THEN TableAfterGet(table, priority) ELSE table,
                a, i + 1)

\* save_or_show(fig, save_path)
SaveOrShow(save_path) == IF save_path THEN "savefig" ELSE "show"

---------------------------------------------------------------------------
(* JSON values and the parts of the solver's output stream. *)

\* json.loads results: an object is a dict, null is None, a number an int
JObj(o) == [t |-> "dict", d |-> o]
JNull == [t |-> "NoneType", d |-> <<>>]
JNum == [t |-> "int", d |-> <<>>]

\* A part of input_data.split('----------') after part.strip(), by what the
\* selection loop can tell of it: "blank" is the empty string, "status"
\* starts with '=', "garbage" makes json.loads raise JSONDecodeError, "json"
\* parses to value.
Part(text, value) == [text |-> text, value |-> value]
Blank == Part("blank", JNull)
Status == Part("status", JNull)
Garbage == Part("garbage", JNull)
Json(value) == Part("json", value)

---------------------------------------------------------------------------
(* visualize_schedule.py *)

\* for part in parts: the first part that parses is taken
StreamSelectFirst(parts, k) ==
    LET idx == {j \in 1..Len(parts) : parts[j].text = "json"}
    IN IF idx = {} THEN JNull
       ELSE parts[CHOOSE j \in idx : \A q \in idx : j <= q].value

\* for part in reversed(parts): from part k down; data stays None when the
\* loop ends without a break
RECURSIVE StreamSelect(_, _)
StreamSelect(parts, k) ==
    IF k < 1 THEN JNull
    ELSE LET part == parts[k]
         IN IF part.text = "blank" THEN StreamSelect(parts, k - 1)
            ELSE IF part.text = "status" THEN StreamSelect(parts, k - 1)
            ELSE IF part.text = "json" THEN part.value
            ELSE StreamSelect(parts, k - 1)

StreamPriorityColors == (0 :> "red") @@ (1 :> "blue") @@ (2 :> "green")

\* color = 'gray'; if i < len(task_priorities): color = priority_colors.get(p, 'gray')
StreamColor(task_priorities, i) ==
    IF i < Len(task_priorities)
    THEN LET p == task_priorities[i + 1]
         IN IF p.t = "int" THEN DictGet(StreamPriorityColors, p.v, "gray") ELSE "gray"
    ELSE "gray"

\* for pred, succ in precedence: ... task_predecessors[succ].append(pred)
RECURSIVE StreamPredecessors(_, _, _)
StreamPredecessors(precedence, k, task_predecessors) ==
    IF k > Len(precedence) THEN task_predecessors
    ELSE LET pred == precedence[k][1]
             succ == precedence[k][2]
             d1 == IF succ \notin DOMAIN task_predecessors
                   THEN task_predecessors @@ (succ :> <<>>)
                   ELSE task_predecessors
         IN StreamPredecessors(precedence, k + 1,
                               [d1 EXCEPT ![succ] = Append(@, pred)])

StreamCoords(assignments, start_times, durations) ==
    [i \in 0..(ZipLen(assignments, start_times, durations) - 1) |->
        <<start_times[i + 1], start_times[i + 1] + durations[i + 1],
          assignments[i + 1]>>]

StreamLabel(i, preds) ==
    IF Truthy(preds) THEN JoinT(preds, 1) \o " -> " \o ("T" \o Str(i))
    ELSE "T" \o Str(i)

RECURSIVE StreamArrows(_, _, _, _, _, _)
StreamArrows(st, preds, k, start, emp, task_coords) ==
    IF k > Len(preds) \/ st.exc # "" THEN st
    ELSE LET p_idx == preds[k]
         IN IF p_idx \in DOMAIN task_coords
            THEN StreamArrows(
                     [st EXCEPT !.canvas =
                         Append(@, Annotate(<<start, emp>>,
                                            <<task_coords[p_idx][2],
                                              task_coords[p_idx][3]>>))],
                     preds, k + 1, start, emp, task_coords)
            ELSE StreamArrows(st, preds, k + 1, start, emp, task_coords)

RECURSIVE StreamTasks(_, _, _, _, _, _, _, _)
StreamTasks(st, i, assignments, start_times, durations, task_priorities, task_predecessors, task_coords) ==
    IF i >= ZipLen(assignments, start_times, durations) THEN st
    ELSE LET emp == assignments[i + 1]
             start == start_times[i + 1]
             dur == durations[i + 1]
             color == StreamColor(task_priorities, i)
             preds == DictGet(task_predecessors, i, <<>>)
             st1 == [st EXCEPT !.canvas = Append(@, Barh(emp, dur, start, color))]
             st2 == IF Truthy(preds)
                    THEN StreamArrows(st1, preds, 1, start, emp, task_coords)
                    ELSE st1
             st3 == [st2 EXCEPT !.canvas =
                        Append(@, Text(2 * start + dur, emp, StreamLabel(i, preds)))]
         IN StreamTasks(st3, i + 1, assignments, start_times, durations,
                        task_priorities, task_predecessors, task_coords)

\* lines 69-135: the figure drawn from the extracted data
StreamFigure(o) ==
    LET max_time == DictGet(o, "C_max", 0)
        priority_cost == DictGet(o, "c_p", 0)
        assignments == DictGet(o, "a", <<>>)
        start_times == DictGet(o, "s", <<>>)
        durations == DictGet(o, "dur", <<>>)
        task_priorities == DictGet(o, "task_priority", <<>>)
        employees == Sorted(SetOf(assignments))
        precedence == DictGet(o, "P_out", <<>>)
        task_predecessors == StreamPredecessors(precedence, 1, <<>>)
        task_coords == StreamCoords(assignments, start_times, durations)
        st == StreamTasks([canvas |-> <<>>, exc |-> ""], 0, assignments,
                          start_times, durations, task_priorities,
                          task_predecessors, task_coords)
    IN [exc |-> "", figsize |-> <<12, 6>>, canvas |-> st.canvas,
        yticks |-> employees, yticklabels |-> EmployeeLabels(employees),
        xlabel |-> "Time", ylabel |-> "Employees",
        title |-> "Schedule Visualization (Max Time: " \o Str(max_time)
                  \o ", Priority Cost: " \o Str(priority_cost) \o ")",
        grid |-> TRUE, exists |-> TRUE]

\* what a run leaves: the figure, the exception, the printed lines, the sink
Outcome(f, e, out, snk) == [fig |-> f, exc |-> e, stdout |-> out, sink |-> snk]

\* main() of visualize_schedule.py on the parts of stdin
StreamMain(parts, save_given) ==
    LET data == StreamSelect(parts, Len(parts))
    IN IF data.t = "NoneType"
       THEN Outcome(NoFig, "", <<"Error: No valid JSON found in input.">>, "none")
       ELSE IF data.t # "dict"
       THEN Outcome(NoFig, "AttributeError", <<>>, "none")
       ELSE IF \/ ~Truthy(DictGet(data.d, "a", <<>>))
               \/ ~Truthy(DictGet(data.d, "s", <<>>))
               \/ ~Truthy(DictGet(data.d, "dur", <<>>))
       THEN Outcome(NoFig, "",
                    <<"Error: Missing required data fields (a, s, dur) in JSON.">>,
                    "none")
       ELSE Outcome(StreamFigure(data.d), "", <<>>, SaveOrShow(save_given))

---------------------------------------------------------------------------
(* visualize_schedule_mip.py *)

\* for part in parts: from part k on; data stays None when the loop ends
\* without a break
RECURSIVE MipSelect(_, _)
MipSelect(parts, k) ==
    IF k > Len(parts) THEN JNull
    ELSE LET part == parts[k]
         IN IF part.text = "blank" \/ part.text = "status"
            THEN MipSelect(parts, k + 1)
            ELSE IF part.text = "json" THEN part.value
            ELSE MipSelect(parts, k + 1)

\* the loop without its break: the highest employee index wins
MipAssignedLast(x, t, e, m) ==
    LET E == {q \in e..(m - 1) : q < Len(x) /\ t < Len(x[q + 1]) /\ x[q + 1][t + 1] = 1}
    IN IF E = {} THEN PyNone ELSE PyInt(CHOOSE q \in E : \A r \in E : r <= q)

\* for e in range(m): if e < len(x) and t < len(x[e]) and x[e][t] == 1:
\*     assigned_emp = e; break
RECURSIVE MipAssigned(_, _, _, _)
MipAssigned(x, t, e, m) ==
    IF e >= m THEN PyNone
    ELSE IF e < Len(x) /\ t < Len(x[e + 1]) /\ x[e + 1][t + 1] = 1 THEN PyInt(e)
    ELSE MipAssigned(x, t, e + 1, m)

\* assignments, for t in range(n); a task with no assignment gets employee 0
MipAssignments(x, n) ==
    [k \in 1..n |->
        LET assigned_emp == MipAssigned(x, k - 1, 0, Len(x))
        IN IF assigned_emp = PyNone THEN 0 ELSE assigned_emp.v]

\* print(f"Warning: Task {t} has no assignment"), for the tasks from t on
RECURSIVE MipWarnings(_, _, _)
MipWarnings(x, t, n) ==
    IF t >= n THEN <<>>
    ELSE (IF MipAssigned(x, t, 0, Len(x)) = PyNone
          THEN <<"Warning: Task " \o Str(t) \o " has no assignment">>
          ELSE <<>>) \o MipWarnings(x, t + 1, n)

\* for pair in P_raw: if len(pair) >= 2: precedence.append((pair[0], pair[1]))
RECURSIVE MipPrecedence(_, _)
MipPrecedence(P_raw, k) ==
    IF k > Len(P_raw) THEN <<>>
    ELSE (IF Len(P_raw[k]) >= 2 THEN <<<<P_raw[k][1], P_raw[k][2]>>>> ELSE <<>>)
         \o MipPrecedence(P_raw, k + 1)

MipPriorityColors == (0 :> "red") @@ (1 :> "blue") @@ (2 :> "green")

\* color = "gray"; if i < len(p): color = priority_colors.get(p[i], "gray")
MipColor(p, i) ==
    IF i < Len(p)
    THEN LET priority == p[i + 1]
         IN IF priority.t = "int"
            THEN DictGet(MipPriorityColors, priority.v, "gray")
            ELSE "gray"
    ELSE "gray"

RECURSIVE MipPredecessors(_, _, _)
MipPredecessors(precedence, k, task_predecessors) ==
    IF k > Len(precedence) THEN task_predecessors
    ELSE LET pred == precedence[k][1]
             succ == precedence[k][2]
             d1 == IF succ \notin DOMAIN task_predecessors
                   THEN task_predecessors @@ (succ :> <<>>)
                   ELSE task_predecessors
         IN MipPredecessors(precedence, k + 1,
                            [d1 EXCEPT ![succ] = Append(@, pred)])

MipCoords(assignments, start_times, durations) ==
    [i \in 0..(ZipLen(assignments, start_times, durations) - 1) |->
        <<start_times[i + 1], start_times[i + 1] + durations[i + 1],
          assignments[i + 1]>>]

MipLabel(i, preds) ==
    IF Truthy(preds) THEN JoinT(preds, 1) \o " -> " \o ("T" \o Str(i))
    ELSE "T" \o Str(i)

RECURSIVE MipArrows(_, _, _, _, _, _)
MipArrows(st, preds, k, start, emp, task_coords) ==
    IF k > Len(preds) \/ st.exc # "" THEN st
    ELSE LET p_idx == preds[k]
         IN IF p_idx \in DOMAIN task_coords
            THEN MipArrows(
                     [st EXCEPT !.canvas =
                         Append(@, Annotate(<<start, emp>>,
                                            <<task_coords[p_idx][2],
                                              task_coords[p_idx][3]>>))],
                     preds, k + 1, start, emp, task_coords)
            ELSE MipArrows(st, preds, k + 1, start, emp, task_coords)

RECURSIVE MipTasks(_, _, _, _, _, _, _, _)
MipTasks(st, i, assignments, start_times, durations, p, task_predecessors, task_coords) ==
    IF i >= ZipLen(assignments, start_times, durations) THEN st
    ELSE LET emp == assignments[i + 1]
             start == start_times[i + 1]
             dur == durations[i + 1]
             color == MipColor(p, i)
             preds == DictGet(task_predecessors, i, <<>>)
             st1 == [st EXCEPT !.canvas = Append(@, Barh(emp, dur, start, color))]
             st2 == IF Truthy(preds)
                    THEN MipArrows(st1, preds, 1, start, emp, task_coords)
                    ELSE st1
             st3 == [st2 EXCEPT !.canvas =
                        Append(@, Text(2 * start + dur, emp, MipLabel(i, preds)))]
         IN MipTasks(st3, i + 1, assignments, start_times, durations, p,
                     task_predecessors, task_coords)

\* lines 70-160: the figure drawn from the extracted data
MipFigure(o) ==
    LET max_time == DictGet(o, "C_max", 0)
        priority_cost == DictGet(o, "c_p", 0)
        x == DictGet(o, "x", <<<<>>>>)
        start_times == DictGet(o, "s", <<>>)
        durations == DictGet(o, "dur", <<>>)
        p == DictGet(o, "p", <<>>)
        P_raw == DictGet(o, "P_raw", <<<<>>>>)
        assignments == MipAssignments(x, Len(start_times))
        precedence == IF Truthy(P_raw) THEN MipPrecedence(P_raw, 1) ELSE <<>>
        task_predecessors == MipPredecessors(precedence, 1, <<>>)
        employees == Sorted(SetOf(assignments))
        task_coords == MipCoords(assignments, start_times, durations)
        st == MipTasks([canvas |-> <<>>, exc |-> ""], 0, assignments,
                       start_times, durations, p, task_predecessors, task_coords)
    IN [exc |-> "", figsize |-> <<14, 7>>, canvas |-> st.canvas,
        yticks |-> employees, yticklabels |-> EmployeeLabels(employees),
        xlabel |-> "Time", ylabel |-> "Employees",
        title |-> "MIP Schedule Visualization (Makespan: " \o Str(max_time)
                  \o ", Priority Cost: " \o Str(priority_cost) \o ")",
        grid |-> TRUE, exists |-> TRUE]

\* main() of visualize_schedule_mip.py on the parts of stdin
MipMain(parts, save_given) ==
    LET data == MipSelect(parts, 1)
    IN IF data.t = "NoneType"
       THEN Outcome(NoFig, "", <<"Error: No valid JSON found in input.">>, "none")
       ELSE IF data.t # "dict"
       THEN Outcome(NoFig, "AttributeError", <<>>, "none")
       ELSE IF \/ ~Truthy(DictGet(data.d, "x", <<<<>>>>))
               \/ ~Truthy(DictGet(data.d, "s", <<>>))
               \/ ~Truthy(DictGet(data.d, "dur", <<>>))
       THEN Outcome(NoFig, "",
                    <<"Error: Missing required data fields (x, s, dur) in JSON.">>,
                    "none")
       ELSE Outcome(MipFigure(data.d), "",
                    MipWarnings(DictGet(data.d, "x", <<<<>>>>), 0,
                                Len(DictGet(data.d, "s", <<>>))),
                    SaveOrShow(save_given))

---------------------------------------------------------------------------
(* visualize_schedule_cp.py *)

\* the attributes of the namespace create_parser(...).parse_args() returns
ParserDests == {"save", "solver", "data"}

\* main() of visualize_schedule_cp.py: line 20 reads args.parallel, which the
\* parser does not define, and passes run_minizinc four positional
\* arguments where it takes three; neither lets the run reach line 22
CpMain ==
    IF "parallel" \notin ParserDests
    THEN Outcome(NoFig, "AttributeError", <<>>, "none")
    ELSE Outcome(NoFig, "TypeError", <<>>, "none")

---------------------------------------------------------------------------
(* The inputs the model draws. *)

SeqsUpTo(S, n) == UNION {[1..k -> S] : k \in 0..n}

Task(emp, start, dur, pri) == [emp |-> emp, start |-> start, dur |-> dur, pri |-> pri]

\* tasks on two employees, one of each priority colour, one of an unknown
\* priority and one whose priority is None
TaskSet == {Task(0, 0, 3, PyInt(0)), Task(1, 3, 2, PyInt(1)), Task(0, 3, 2, PyInt(2)),
            Task(1, 0, 3, PyInt(5)), Task(0, 0, 2, PyNone)}

TaskSeqs == SeqsUpTo(TaskSet, MaxTasks)

\* precedence pairs (pred, succ): forward, backward, with a negative
\* predecessor and with a successor out of range
EdgeSet == {<<0, 1>>, <<1, 0>>, <<-1, 1>>, <<0, 7>>}

EdgeSeqs == SeqsUpTo(EdgeSet, MaxEdges)

Column(tasks, f) == [k \in 1..Len(tasks) |-> tasks[k][f]]

\* the lengths of the four per-task lists of n tasks: all n, or one of them
\* empty or one short
FullCut(n) == [a |-> n, s |-> n, dur |-> n, pri |-> n]
Cuts(n) == {FullCut(n)} \cup
           {[FullCut(n) EXCEPT ![f] = k] :
               f \in {"a", "s", "dur", "pri"}, k \in {0, n - 1} \cap 0..(n - 1)}

PlotArgs(ts, cut, prec, prefix) ==
    [assignments |-> SubSeq(Column(ts, "emp"), 1, cut.a),
     start_times |-> SubSeq(Column(ts, "start"), 1, cut.s),
     durations |-> SubSeq(Column(ts, "dur"), 1, cut.dur),
     priorities |-> SubSeq(Column(ts, "pri"), 1, cut.pri),
     precedence |-> prec, max_time |-> 5, priority_cost |-> 1,
     title_prefix |-> prefix]

NoArgs == PlotArgs(<<>>, FullCut(0), <<>>, "")

\* the JSON object the CP model prints for the stream renderer
StreamObject(ts, cut, prec) ==
    [C_max |-> 5, c_p |-> 1,
     a |-> SubSeq(Column(ts, "emp"), 1, cut.a),
     s |-> SubSeq(Column(ts, "start"), 1, cut.s),
     dur |-> SubSeq(Column(ts, "dur"), 1, cut.dur),
     task_priority |-> SubSeq(Column(ts, "pri"), 1, cut.pri),
     P_out |-> prec]

Without(o, key) == [k \in DOMAIN o \ {key} |-> o[k]]

TaskA == Task(0, 0, 3, PyInt(0))
TaskB == Task(1, 3, 2, PyInt(1))

\* the objects of the streams of several parts
StreamObjects ==
    {StreamObject(<<TaskA>>, FullCut(1), <<>>),
     StreamObject(<<TaskA, TaskB>>, FullCut(2), <<<<0, 1>>>>),
     Without(StreamObject(<<TaskA, TaskB>>, FullCut(2), <<<<0, 1>>>>), "s")}

StreamParts == {Blank, Status, Garbage, Json(JNull), Json(JNum)}
               \cup {Json(JObj(o)) : o \in StreamObjects}

\* x[e][t] = 1 when employee e does task t, for the employees 0 and 1
OneHot(a, n) == [e \in 1..2 |-> [k \in 1..n |-> IF a[k] = e - 1 THEN 1 ELSE 0]]
AllOf(v, n) == [e \in 1..2 |-> [k \in 1..n |-> v]]

\* the JSON object the MIP model prints
MipObject(ts, cut, x, prec) ==
    [C_max |-> 5, c_p |-> 1, x |-> x,
     s |-> SubSeq(Column(ts, "start"), 1, cut.s),
     dur |-> SubSeq(Column(ts, "dur"), 1, cut.dur),
     p |-> SubSeq(Column(ts, "pri"), 1, cut.pri),
     P_raw |-> prec]

\* the x matrices drawn for the tasks ts: the assignment of ts with rows of
\* cut.a columns and, with every list at full length, no employee row at
\* all, a task nobody does, a task both employees do
MipXs(ts, cut) ==
    {OneHot(Column(ts, "emp"), cut.a)} \cup
    (IF cut = FullCut(Len(ts))
     THEN {<<>>, AllOf(0, Len(ts)), AllOf(1, Len(ts))}
     ELSE {})

\* the objects drawn for the tasks ts: one for each x and, with every list
\* at full length, the object without its "x" and without its "P_raw"
MipObjectsOf(ts, cut, prec) ==
    {MipObject(ts, cut, x, prec) : x \in MipXs(ts, cut)} \cup
    (IF cut = FullCut(Len(ts))
     THEN {Without(MipObject(ts, cut, OneHot(Column(ts, "emp"), cut.a), prec), key) :
               key \in {"x", "P_raw"}}
     ELSE {})

MipObjects ==
    {MipObject(<<TaskA>>, FullCut(1), OneHot(<<0>>, 1), <<>>),
     MipObject(<<TaskA, TaskB>>, FullCut(2), OneHot(<<0, 1>>, 2), <<<<0, 1>>>>),
     Without(MipObject(<<TaskA, TaskB>>, FullCut(2), OneHot(<<0, 1>>, 2), <<<<0, 1>>>>), "s")}

MipParts == {Blank, Status, Garbage, Json(JNull), Json(JNum)}
            \cup {Json(JObj(o)) : o \in MipObjects}

---------------------------------------------------------------------------
(* The runs. *)

NoHist == [set |-> FALSE, args |-> NoArgs, fig |-> NoFig, other |-> FALSE,
           passed |-> NoArgs]

Init ==
    /\ pc = "idle"
    /\ run = ""
    /\ stdin = <<>>
    /\ save = FALSE
    /\ args = NoArgs
    /\ fig = NoFig
    /\ figs = 0
    /\ exc = ""
    /\ stdout = <<>>
    /\ sink = "none"
    /\ PRIORITY_COLORS = PriorityColorsInit
    /\ hist = NoHist
    /\ ncalls = 0

\* the state a run of a main() on the parts leaves
Ran(name, parts, save_given, out) ==
    /\ pc' = "done"
    /\ run' = name
    /\ stdin' = parts
    /\ save' = save_given
    /\ fig' = out.fig
    /\ figs' = IF out.fig.exists THEN figs + 1 ELSE figs
    /\ exc' = out.exc
    /\ stdout' = out.stdout
    /\ sink' = out.sink
    /\ UNCHANGED <<args, PRIORITY_COLORS, hist, ncalls>>

\* a program calls plot_schedule once
PlotSchedule ==
    /\ pc = "idle"
    /\ \E ts \in TaskSeqs, prec \in EdgeSeqs :
         \E cut \in Cuts(Len(ts)) :
           LET a == PlotArgs(ts, cut, prec, "CP Schedule")
               f == plot_schedule(a, PRIORITY_COLORS)
           IN /\ args' = a
              /\ fig' = f
              /\ exc' = f.exc
              /\ PRIORITY_COLORS' = TableAfterTasks(PRIORITY_COLORS, a, 0)
    /\ pc' = "done"
    /\ run' = "plot_schedule"
    /\ figs' = figs + 1
    /\ ncalls' = ncalls + 1
    /\ stdout' = <<>>
    /\ sink' = "none"
    /\ UNCHANGED <<stdin, save, hist>>

\* visualize_schedule.py runs on a stream of one JSON object, to show it
RunStreamOnObject ==
    /\ pc = "idle"
    /\ \E ts \in TaskSeqs, prec \in EdgeSeqs :
         \E cut \in Cuts(Len(ts)) :
           LET parts == <<Json(JObj(StreamObject(ts, cut, prec)))>>
           IN Ran("stream", parts, FALSE, StreamMain(parts, FALSE))

\* visualize_schedule.py runs on a stream of several parts
RunStreamOnParts ==
    /\ pc = "idle"
    /\ \E parts \in SeqsUpTo(StreamParts, MaxParts), save_given \in BOOLEAN :
         Ran("stream", parts, save_given, StreamMain(parts, save_given))

\* visualize_schedule_mip.py runs on a stream of one JSON object, to show it
RunMipOnObject ==
    /\ pc = "idle"
    /\ \E ts \in TaskSeqs, prec \in EdgeSeqs :
         \E cut \in Cuts(Len(ts)) :
           \E o \in MipObjectsOf(ts, cut, prec) :
             LET parts == <<Json(JObj(o))>>
             IN Ran("mip", parts, FALSE, MipMain(parts, FALSE))

\* visualize_schedule_mip.py runs on a stream of several parts
RunMipOnParts ==
    /\ pc = "idle"
    /\ \E parts \in SeqsUpTo(MipParts, MaxParts), save_given \in BOOLEAN :
         Ran("mip", parts, save_given, MipMain(parts, save_given))

\* visualize_schedule_cp.py runs
RunCp ==
    /\ pc = "idle"
    /\ \E save_given \in BOOLEAN : Ran("cp", <<>>, save_given, CpMain)

Next ==
    \/ PlotSchedule
    \/ RunStreamOnObject
    \/ RunStreamOnParts
    \/ RunMipOnObject
    \/ RunMipOnParts
    \/ RunCp

Spec == Init /\ [][Next]_vars

---------------------------------------------------------------------------
(* What the claims speak of. *)

PlotDone == pc = "done" /\ run = "plot_schedule"

IsBar(d) == d.op = "barh"
IsArrow(d) == d.op = "annotate"
IsText(d) == d.op = "text"
Bars(f) == SelectSeq(f.canvas, IsBar)
Arrows(f) == SelectSeq(f.canvas, IsArrow)
Texts(f) == SelectSeq(f.canvas, IsText)

\* the tasks of a call: the indices at which all three sequences have an entry
NTasks(a) == Min2(Len(a.assignments), Min2(Len(a.start_times), Len(a.durations)))
TaskIdx(a) == 0..(NTasks(a) - 1)

SameLength(a) ==
    /\ Len(a.assignments) = Len(a.start_times)
    /\ Len(a.start_times) = Len(a.durations)
AnyEmpty(a) ==
    \/ a.assignments = <<>>
    \/ a.start_times = <<>>
    \/ a.durations = <<>>

RemoveAt(seq, k) == SubSeq(seq, 1, k - 1) \o SubSeq(seq, k + 1, Len(seq))

\* edge k of the call has both ends among the tasks
ValidEdge(a, k) ==
    /\ a.precedence[k][1] \in TaskIdx(a)
    /\ a.precedence[k][2] \in TaskIdx(a)

\* the arrow of edge (p, s): from (start_p + duration_p, employee_p) to
\* (start_s, employee_s)
ArrowOfEdge(a, k) ==
    LET p == a.precedence[k][1]
        s == a.precedence[k][2]
    IN Annotate(<<a.start_times[s + 1], a.assignments[s + 1]>>,
                <<a.start_times[p + 1] + a.durations[p + 1], a.assignments[p + 1]>>)

\* the predecessors of task i: p over the edges (p, i), in input order
PredsOf(precedence, i) ==
    LET into == {k \in 1..Len(precedence) : precedence[k][2] = i}
        nth(j) == CHOOSE k \in into : Cardinality({q \in into : q < k}) = j - 1
    IN [j \in 1..Cardinality(into) |-> precedence[nth(j)][1]]

\* the comma-joined "T{p}" of the first j predecessors
RECURSIVE Joined(_, _)
Joined(preds, j) ==
    IF j = 1 THEN "T" \o ToString(preds[1])
    ELSE Joined(preds, j - 1) \o "," \o "T" \o ToString(preds[j])

LabelOf(i, preds) ==
    IF preds = <<>> THEN "T" \o ToString(i)
    ELSE Joined(preds, Len(preds)) \o " -> T" \o ToString(i)

ColourOf(priorities, i) ==
    IF i >= Len(priorities) THEN "gray"
    ELSE IF priorities[i + 1] = PyInt(0) THEN "red"
    ELSE IF priorities[i + 1] = PyInt(1) THEN "blue"
    ELSE IF priorities[i + 1] = PyInt(2) THEN "green"
    ELSE "gray"

\* the parts that parse as JSON, and the values of the last and the first
JsonIdx(parts) == {k \in 1..Len(parts) : parts[k].text = "json"}
LastJson(parts) ==
    IF JsonIdx(parts) = {} THEN JNull
    ELSE parts[CHOOSE k \in JsonIdx(parts) : \A q \in JsonIdx(parts) : q <= k].value
FirstJson(parts) ==
    IF JsonIdx(parts) = {} THEN JNull
    ELSE parts[CHOOSE k \in JsonIdx(parts) : \A q \in JsonIdx(parts) : k <= q].value

StreamDone == pc = "done" /\ run = "stream"
MipDone == pc = "done" /\ run = "mip"
CpDone == pc = "done" /\ run = "cp"

Field(o, key, default) == IF key \in DOMAIN o THEN o[key] ELSE default

\* the record of a JSON object as the arguments of a render
StreamArgs(o) ==
    [assignments |-> Field(o, "a", <<>>), start_times |-> Field(o, "s", <<>>),
     durations |-> Field(o, "dur", <<>>),
     priorities |-> Field(o, "task_priority", <<>>),
     precedence |-> Field(o, "P_out", <<>>), max_time |-> Field(o, "C_max", 0),
     priority_cost |-> Field(o, "c_p", 0), title_prefix |-> "Schedule"]

\* the assignment of task t derived from x: the lowest employee index e with
\* x[e][t] = 1, or 0 when there is none
LowestEmployee(x, t) ==
    LET E == {e \in 0..(Len(x) - 1) : t < Len(x[e + 1]) /\ x[e + 1][t + 1] = 1}
    IN IF E = {} THEN 0 ELSE CHOOSE e \in E : \A q \in E : e <= q

MipArgs(o) ==
    [assignments |-> [k \in 1..Len(Field(o, "s", <<>>)) |->
                         LowestEmployee(Field(o, "x", <<<<>>>>), k - 1)],
     start_times |-> Field(o, "s", <<>>), durations |-> Field(o, "dur", <<>>),
     priorities |-> Field(o, "p", <<>>),
     precedence |-> Field(o, "P_raw", <<>>), max_time |-> Field(o, "C_max", 0),
     priority_cost |-> Field(o, "c_p", 0), title_prefix |-> "MIP Schedule"]

MissingDataReported ==
    /\ exc = ""
    /\ Len(stdout) = 1
    /\ stdout[1] \in {"Error: Missing required data fields (a, s, dur) in JSON.",
                      "Error: Missing required data fields (x, s, dur) in JSON."}

NoOutput == fig = NoFig /\ figs = 0 /\ sink = "none"

\* a figure without its title, and without its title and figure size
Untitled(f) == [f EXCEPT !.title = ""]
Layout(f) == [f EXCEPT !.title = "", !.figsize = <<0, 0>>]

---------------------------------------------------------------------------
(* C1.  Every render whose employee-assignment, start-time and duration    *)
(* sequences do not all have the same length, or of which one is empty,    *)
(* fails with a MissingDataError and builds no chart.                      *)
C1_MissingDataError ==
    /\ (PlotDone /\ (~SameLength(args) \/ AnyEmpty(args)))
           => (exc = "MissingDataError" /\ fig.canvas = <<>>)
    /\ (StreamDone /\ LastJson(stdin).t = "dict"
           /\ (~SameLength(StreamArgs(LastJson(stdin).d))
                   \/ AnyEmpty(StreamArgs(LastJson(stdin).d))))
           => (MissingDataReported /\ fig.canvas = <<>>)

---------------------------------------------------------------------------
(* C3.  A precedence edge whose predecessor or successor is no task index  *)
(* never raises an error and contributes no arrow, and the bars and the    *)
(* arrows drawn are exactly those drawn for the same input without that    *)
(* edge.                                                                   *)
C3_DanglingEdgeDropped ==
    PlotDone =>
        /\ exc = ""
        /\ \A k \in 1..Len(args.precedence) :
             ~ValidEdge(args, k) =>
                LET without == plot_schedule(
                        [args EXCEPT !.precedence = RemoveAt(@, k)],
                        PriorityColorsInit)
                IN /\ Bars(fig) = Bars(without)
                   /\ Arrows(fig) = Arrows(without)

C3_Witness ==
    /\ PlotDone
    /\ NTasks(args) = 2
    /\ args.precedence = <<<<-1, 1>>, <<0, 1>>>>
    /\ Len(Arrows(fig)) = 1

---------------------------------------------------------------------------
---------------------------------------------------------------------------
(* C5.  The predecessor list of task i is the sequence of p over the edges *)
(* (p, i) in input order, repeated edges kept; the label of task i is      *)
(* "T{i}" when the list is empty and otherwise the comma-joined "T{p}" of  *)
(* the list followed by " -> T{i}".                                        *)
C5_PredecessorLabels ==
    PlotDone =>
        /\ Len(Texts(fig)) = NTasks(args)
        /\ \A i \in TaskIdx(args) :
             Texts(fig)[i + 1].s = LabelOf(i, PredsOf(args.precedence, i))
        /\ \A k \in 1..Len(args.precedence) :
             LET succ == args.precedence[k][2]
             IN build_task_predecessors(args.precedence)[succ]
                    = PredsOf(args.precedence, succ)

C5_Witness ==
    /\ PlotDone
    /\ NTasks(args) = 2
    /\ args.precedence = <<<<0, 1>>, <<-1, 1>>>>
    /\ Texts(fig)[1].s = "T0"
    /\ Texts(fig)[2].s = "T0,T-1 -> T1"

---------------------------------------------------------------------------
(* C6.  Task i is drawn as a bar spanning [start_i, start_i + duration_i]  *)
(* on the row of its employee, and every precedence edge (p, s) between    *)
(* two tasks gives exactly one arrow, from (start_p + duration_p,          *)
(* employee_p) to (start_s, employee_s).                                   *)
C6_BarsAndArrows ==
    PlotDone =>
        LET valid == {k \in 1..Len(args.precedence) : ValidEdge(args, k)}
            arrows == Arrows(fig)
        IN /\ Len(Bars(fig)) = NTasks(args)
           /\ \A i \in TaskIdx(args) :
                /\ Bars(fig)[i + 1].y = args.assignments[i + 1]
                /\ Bars(fig)[i + 1].left = args.start_times[i + 1]
                /\ Bars(fig)[i + 1].left + Bars(fig)[i + 1].width
                       = args.start_times[i + 1] + args.durations[i + 1]
           /\ Len(arrows) = Cardinality(valid)
           /\ \A k \in valid :
                Cardinality({j \in 1..Len(arrows) : arrows[j] = ArrowOfEdge(args, k)})
                    = Cardinality({q \in valid : ArrowOfEdge(args, q) = ArrowOfEdge(args, k)})

\* the example of the specification: tasks (emp 0, start 0, dur 3) and
\* (emp 1, start 3, dur 2) with the edge (0, 1)
C6_Witness ==
    /\ PlotDone
    /\ args.assignments = <<0, 1>>
    /\ args.start_times = <<0, 3>>
    /\ args.durations = <<3, 2>>
    /\ args.precedence = <<<<0, 1>>>>
    /\ Len(Bars(fig)) = 2
    /\ Arrows(fig) = <<Annotate(<<3, 1>>, <<3, 0>>)>>

---------------------------------------------------------------------------
(* C2.  A render fails atomically: whenever the employee assignment, the   *)
(* start times or the durations are absent or empty, the run of the CP,    *)
(* the MIP and the stream entry point creates no figure, draws nothing and *)
(* neither saves nor shows.                                                *)
C2_AtomicFailure ==
    /\ (StreamDone /\ LastJson(stdin).t = "dict"
           /\ \E key \in {"a", "s", "dur"} : Field(LastJson(stdin).d, key, <<>>) = <<>>)
          => NoOutput
    /\ (MipDone /\ FirstJson(stdin).t = "dict"
           /\ \E key \in {"x", "s", "dur"} : Field(FirstJson(stdin).d, key, <<>>) = <<>>)
          => NoOutput
    /\ CpDone => NoOutput

---------------------------------------------------------------------------
(* C8.  Tasks are processed in ascending index order: the drawing calls    *)
(* are, task after task, the bar of the task, then its incoming arrows in  *)
(* predecessor-list order, then its label, with one bar and one label per  *)
(* task; an arrow into task s from a predecessor p > s is drawn too.       *)
DrawnPreds(a, i) ==
    LET preds == PredsOf(a.precedence, i)
        known == {j \in 1..Len(preds) : preds[j] \in TaskIdx(a)}
        nth(j) == CHOOSE k \in known : Cardinality({q \in known : q < k}) = j - 1
    IN [j \in 1..Cardinality(known) |-> preds[nth(j)]]

RECURSIVE BlockStart(_, _)
BlockStart(a, i) ==
    IF i = 0 THEN 0 ELSE BlockStart(a, i - 1) + 2 + Len(DrawnPreds(a, i - 1))

---------------------------------------------------------------------------
(* C9.  On every input the three renderers accept, plot_schedule, the      *)
(* stream renderer and the MIP renderer (with the assignment of task t     *)
(* derived as the lowest e with x[e][t] = 1, or 0) draw the same figure    *)
(* but for the title text.                                                 *)
C9_DifferOnlyInTitle ==
    /\ (StreamDone /\ fig.exists)
          => Untitled(fig) = Untitled(plot_schedule(StreamArgs(LastJson(stdin).d),
                                                    PriorityColorsInit))
    /\ (MipDone /\ fig.exists)
          => Untitled(fig) = Untitled(plot_schedule(MipArgs(FirstJson(stdin).d),
                                                    PriorityColorsInit))

(* C9, amended.  They draw the same bars, colours, labels, arrows and      *)
(* employee rows; the stream renderer's figure differs from the other two  *)
(* in the title text and in the figure size (12 x 6, not 14 x 7); the MIP  *)
(* renderer's figure is that of plot_schedule titled "MIP Schedule".       *)
C9_SameLayout ==
    /\ (StreamDone /\ fig.exists)
          => LET shared == plot_schedule(StreamArgs(LastJson(stdin).d),
                                         PriorityColorsInit)
             IN /\ Layout(fig) = Layout(shared)
                /\ fig.figsize = <<12, 6>> /\ shared.figsize = <<14, 7>>
                /\ fig.title # shared.title
    /\ (MipDone /\ fig.exists)
          => fig = plot_schedule(MipArgs(FirstJson(stdin).d), PriorityColorsInit)

C9_Witness ==
    /\ MipDone
    /\ fig.exists
    /\ Len(stdin) = 1
    /\ Field(stdin[1].value.d, "x", <<>>) = <<<<1, 1>>, <<1, 1>>>>
    /\ Len(Arrows(fig)) = 2
    /\ fig.yticks = <<0>>

---------------------------------------------------------------------------
(* C10.  The stream renderer renders the record of the last part of the    *)
(* stream that parses as JSON, skipping blank parts, status parts and      *)
(* parts that do not parse; when no part parses it reports an error and    *)
(* renders nothing.  The MIP stream renderer takes the first part that     *)
(* parses.                                                                 *)
Renderable(o, keys) == \A key \in keys : Field(o, key, <<>>) # <<>>

C10_RecordSelection ==
    /\ StreamDone =>
          /\ JsonIdx(stdin) = {}
                => /\ stdout = <<"Error: No valid JSON found in input.">>
                   /\ NoOutput
          /\ fig.exists => LastJson(stdin).t = "dict"
          /\ (LastJson(stdin).t = "dict"
                  /\ Renderable(LastJson(stdin).d, {"a", "s", "dur"}))
                => /\ fig = StreamFigure(LastJson(stdin).d)
                   /\ sink # "none"
    /\ MipDone =>
          /\ JsonIdx(stdin) = {}
                => /\ stdout = <<"Error: No valid JSON found in input.">>
                   /\ NoOutput
          /\ fig.exists => FirstJson(stdin).t = "dict"
          /\ (FirstJson(stdin).t = "dict"
                  /\ Renderable(FirstJson(stdin).d, {"s", "dur"})
                  /\ Field(FirstJson(stdin).d, "x", <<<<>>>>) # <<>>)
                => /\ fig = MipFigure(FirstJson(stdin).d)
                   /\ sink # "none"

\* two solutions and the final status line: the second solution is drawn
C10_Witness ==
    /\ StreamDone
    /\ Len(stdin) = 3
    /\ stdin[1].text = "json" /\ stdin[1].value.t = "dict"
    /\ stdin[2].text = "json" /\ stdin[2].value.t = "dict"
    /\ stdin[1] # stdin[2]
    /\ stdin[3] = Status
    /\ fig = StreamFigure(stdin[2].value.d)
    /\ Len(Bars(fig)) = 2

---------------------------------------------------------------------------
(* A program that calls plot_schedule several times. *)

CallTaskSeqs == SeqsUpTo({TaskA, TaskB}, MaxTasks)
CallEdgeSeqs == SeqsUpTo({<<0, 1>>, <<7, 0>>}, 1)

\* the caller builds the lists of its next call
SetUpCall ==
    /\ pc \in {"idle", "done"}
    /\ ncalls < MaxCalls
    /\ \E ts \in CallTaskSeqs, prec \in CallEdgeSeqs :
         LET a == PlotArgs(ts, FullCut(Len(ts)), prec, "Schedule")
         IN /\ args' = a
            /\ hist' = [hist EXCEPT !.passed = a]
    /\ pc' = "ready"
    /\ UNCHANGED <<run, stdin, save, fig, figs, exc, stdout, sink,
                   PRIORITY_COLORS, ncalls>>

\* plot_schedule runs on the caller's lists, which stay the caller's: no
\* statement of lines 67-131 assigns to an element of a parameter
CallPlotSchedule ==
    /\ pc = "ready"
    /\ LET f == plot_schedule(args, PRIORITY_COLORS)
       IN /\ fig' = f
          /\ exc' = f.exc
          /\ hist' = IF hist.set
                     THEN [hist EXCEPT !.other = @ \/ args # hist.args]
                     ELSE [hist EXCEPT !.set = TRUE, !.args = args, !.fig = f]
    /\ PRIORITY_COLORS' = TableAfterTasks(PRIORITY_COLORS, args, 0)
    /\ pc' = "done"
    /\ run' = "plot_schedule"
    /\ figs' = figs + 1
    /\ ncalls' = ncalls + 1
    /\ UNCHANGED <<args, stdin, save, stdout, sink>>

NextCalls == SetUpCall \/ CallPlotSchedule

SpecCalls == Init /\ [][NextCalls]_vars

---------------------------------------------------------------------------
(* C7.  The renderer is deterministic and stateless: a call given the      *)
(* arguments of the first call, after any calls on other arguments, draws  *)
(* the figure the first call drew, and a call changes neither the lists    *)
(* it is passed nor the module-level priority colour table.                *)
C7_DeterministicStateless ==
    /\ PRIORITY_COLORS = PriorityColorsInit
    /\ pc = "done" =>
          /\ args = hist.passed
          /\ args = hist.args => fig = hist.fig

C7_Witness ==
    /\ pc = "done"
    /\ ncalls = 3
    /\ hist.other
    /\ args = hist.args
    /\ Len(Arrows(fig)) = 1
    /\ Bars(fig)[1].color = "red"
    /\ Bars(fig)[2].color = "blue"

====
